---- MODULE Spec2Model ----
(***************************************************************************)
(* Model of plugin-parsedoc (src/src/index.ts): populateFromGlob /         *)
(* populate read a document, parse it to a hast tree and walk the tree     *)
(* with visitChildren, turning every text node into search records with    *)
(* addRecords under one of three merge strategies.                         *)
(*                                                                         *)
(* Strings are sequences of tokens.  The tokens ".", "[", "]", "/" and " " *)
(* are single characters, every other token (a tag-name part, "root", a    *)
(* file-name part, a text value, a decimal index) is a run of characters   *)
(* that contains none of them, so lastIndexOf/substring/slice on the token *)
(* sequence cut where the code cuts the character string.                  *)
(*                                                                         *)
(* The document tree is the input of the walk: it is revealed node by      *)
(* node, in the order in which visitChildren reaches the nodes.            *)
(***************************************************************************)
EXTENDS Integers, Sequences, FiniteSets, TLC

\* ---- bounds of the model -------------------------------------------------
MaxNodes == 5      \* document nodes visited in one run

\* the visitChildren calls the call stack of the engine holds: one more than
\* the deepest walk of MaxNodes nodes needs
MaxStack == MaxNodes + 2

\* ---- the input alphabet ---------------------------------------------------
\* tag names; x-a.b is a valid custom element name that contains a "."
Tags == { <<"p">>, <<"x-a", ".", "b">> }

\* the value of the n-th text node of the document(s): pairwise distinct, so
\* that the content of a record shows which text nodes went into it
TextValues == <<"A", "B", "C", "D", "E", "F">>

\* the content a transform function writes for the n-th text node
NewValues == <<"N1", "N2", "N3", "N4", "N5", "N6">>

NoTag == <<>>

\* ---- strings --------------------------------------------------------------
Min(a, b) == IF a < b THEN a ELSE b
Max(a, b) == IF a > b THEN a ELSE b

\* String.prototype.lastIndexOf: 0-based index of the last c, or -1
LastIndexOf(s, c) ==
  IF \E k \in 1..Len(s) : s[k] = c
  THEN (CHOOSE k \in 1..Len(s) : s[k] = c /\ \A j \in (k+1)..Len(s) : s[j] # c) - 1
  ELSE -1

\* String.prototype.substring(0, end): a negative end counts as 0
Substring(s, end) == SubSeq(s, 1, Min(Max(end, 0), Len(s)))

\* String.prototype.slice(0, end): a negative end counts from the end
Slice(s, end) ==
  IF end < 0 THEN SubSeq(s, 1, Max(Len(s) + end, 0))
  ELSE SubSeq(s, 1, Min(end, Len(s)))

\* String.prototype.slice(start), start >= 0
SliceFrom(s, start) == SubSeq(s, start + 1, Len(s))

\* ---- the record merger ------------------------------------------------------
pathWithoutLastIndex(path) == Slice(path, LastIndexOf(path, "["))

\* mutant: the paths are compared with their last index left in
isRecordMergeable_fullPath(path, tag, records) ==
  IF Len(records) = 0 THEN FALSE
  ELSE LET lastRecord == records[Len(records)]
       IN path = lastRecord.id /\ tag = lastRecord.type

\* mutant: the paths are not compared at all
isRecordMergeable_tagOnly(path, tag, records) ==
  IF Len(records) = 0 THEN FALSE
  ELSE tag = records[Len(records)].type

isRecordMergeable(path, tag, records) ==
  IF Len(records) = 0 THEN FALSE
  ELSE LET lastRecord == records[Len(records)]
           parentPath == pathWithoutLastIndex(path)
           lastPath == pathWithoutLastIndex(lastRecord.id)
       IN parentPath = lastPath /\ tag = lastRecord.type

addContentToLastRecord(records, content) ==
  [records EXCEPT ![Len(records)].content = @ \o <<" ">> \o content]

\* mutant: the item is put after the element at start, not before it
Splice_after(arr, start, item) ==
  SubSeq(arr, 1, start + 1) \o <<item>> \o SubSeq(arr, start + 2, Len(arr))

\* Array.prototype.splice(start, 0, item)
Splice(arr, start, item) ==
  SubSeq(arr, 1, start) \o <<item>> \o SubSeq(arr, start + 1, Len(arr))

\* mutant: the split case falls through to the merge case
addRecords_splitMerges(content, type, path, records, mergeStrategy) ==
  LET parentPath == Substring(path, LastIndexOf(path, "."))
      newRecord == [type |-> type, content |-> content, id |-> parentPath]
  IN CASE mergeStrategy \in {"merge", "split"} ->
            IF ~isRecordMergeable(parentPath, type, records)
            THEN Append(records, newRecord)
            ELSE addContentToLastRecord(records, content)
       [] mergeStrategy = "both" ->
            IF ~isRecordMergeable(parentPath, type, records)
            THEN records \o <<newRecord, newRecord>>
            ELSE addContentToLastRecord(Splice(records, Len(records) - 1, newRecord), content)

\* mutant: the both case pushes one record, not two, when it cannot merge
addRecords_bothPushesOne(content, type, path, records, mergeStrategy) ==
  LET parentPath == Substring(path, LastIndexOf(path, "."))
      newRecord == [type |-> type, content |-> content, id |-> parentPath]
  IN CASE mergeStrategy = "merge" ->
            IF ~isRecordMergeable(parentPath, type, records)
            THEN Append(records, newRecord)
            ELSE addContentToLastRecord(records, content)
       [] mergeStrategy = "split" -> Append(records, newRecord)
       [] mergeStrategy = "both" ->
            IF ~isRecordMergeable(parentPath, type, records)
            THEN Append(records, newRecord)
            ELSE addContentToLastRecord(Splice(records, Len(records) - 1, newRecord), content)

\* mutant: the split case puts the new record in front (unshift for push)
addRecords_unshift(content, type, path, records, mergeStrategy) ==
  LET parentPath == Substring(path, LastIndexOf(path, "."))
      newRecord == [type |-> type, content |-> content, id |-> parentPath]
  IN CASE mergeStrategy = "merge" ->
            IF ~isRecordMergeable(parentPath, type, records)
            THEN Append(records, newRecord)
            ELSE addContentToLastRecord(records, content)
       [] mergeStrategy = "split" -> <<newRecord>> \o records
       [] mergeStrategy = "both" ->
            IF ~isRecordMergeable(parentPath, type, records)
            THEN records \o <<newRecord, newRecord>>
            ELSE addContentToLastRecord(Splice(records, Len(records) - 1, newRecord), content)

addRecords(content, type, path, records, mergeStrategy) ==
  LET parentPath == Substring(path, LastIndexOf(path, "."))
      newRecord == [type |-> type, content |-> content, id |-> parentPath]
  IN CASE mergeStrategy = "merge" ->
            IF ~isRecordMergeable(parentPath, type, records)
            THEN Append(records, newRecord)
            ELSE addContentToLastRecord(records, content)
       [] mergeStrategy = "split" -> Append(records, newRecord)
       [] mergeStrategy = "both" ->
            IF ~isRecordMergeable(parentPath, type, records)
            THEN records \o <<newRecord, newRecord>>
            ELSE addContentToLastRecord(Splice(records, Len(records) - 1, newRecord), content)

\* ---- hast nodes ----------------------------------------------------------------
\* A node as visitChildren sees it.  src tells which markup the node was parsed
\* from: "doc" the document, "new" a raw string returned by the transform
\* function, "str" a content string written by fromString.  An element parsed
\* from markup has its children revealed when the walk reaches them (lazy);
\* after fromString the children are the explicit list kids.
TextNode(v, src) ==
  [type |-> "text", tagName |-> NoTag, value |-> v, src |-> src, lazy |-> FALSE, kids |-> <<>>]

ElementNode(tag, src) ==
  [type |-> "element", tagName |-> tag, value |-> <<>>, src |-> src, lazy |-> TRUE, kids |-> <<>>]

\* a comment or doctype: neither a text node nor a node with a tagName
OtherNode(src) ==
  [type |-> "comment", tagName |-> NoTag, value |-> <<>>, src |-> src, lazy |-> FALSE, kids |-> <<>>]

\* children[0] of an empty child list
UndefinedNode ==
  [type |-> "undefined", tagName |-> NoTag, value |-> <<>>, src |-> "new", lazy |-> FALSE, kids |-> <<>>]

\* hast-util-to-html: the markup of a node, written as the node list it parses to
toHtml(node) == <<node>>

\* hast-util-from-html with fragment: true
fromHtml(raw) == [type |-> "root", children |-> raw]

\* hast-util-to-string: the text of the descendants; "*" stands for the text of
\* a subtree that is still to be revealed
toString(node) ==
  IF node.lazy THEN <<"*">>
  ELSE IF Len(node.kids) = 0 THEN <<>>
  ELSE IF node.kids[1].type = "text" THEN node.kids[1].value ELSE <<"*">>

\* hast-util-from-string: the children become one text node (none for "")
fromString(node, content) ==
  [node EXCEPT !.lazy = FALSE, !.src = "str",
               !.kids = IF content = <<>> THEN <<>> ELSE <<TextNode(content, "str")>>]

\* ---- the node transformer -----------------------------------------------------
prepareNode(node) ==
  [tag |-> node.tagName, content |-> toString(node), raw |-> toHtml(node)]

applyChanges(node, transformedNode) ==
  IF toHtml(node) # transformedNode.raw
  THEN LET children == fromHtml(transformedNode.raw).children
       IN IF Len(children) = 0 THEN UndefinedNode ELSE children[1]
  ELSE LET renamed == [node EXCEPT !.tagName = transformedNode.tag]
       IN IF toString(renamed) # transformedNode.content
          THEN fromString(renamed, transformedNode.content)
          ELSE renamed

\* raw strings a transform function may return instead of the element's markup:
\* markup with no node, with a text node first, with one element, with two
NewRaws ==
  { <<>>, <<TextNode(<<"H">>, "new")>>, <<ElementNode(<<"x-a", ".", "b">>, "new"), ElementNode(<<"p">>, "new")>>,
    <<TextNode(<<"H">>, "new"), ElementNode(<<"p">>, "new")>> }
    \cup { <<ElementNode(tag, "new")>> : tag \in Tags }

\* The caller-supplied transform functions, after the ones of the tests: each
\* changes the p elements and returns every other node as it is.
\*   rename   node => node.tag === "p" ? { ...node, tag: "x-a.b" } : node
\*   rewrite  node => node.tag === "p" ? { ...node, content: <new text> } : node
\*   replace  node => node.tag === "p" ? { tag: "x-a.b", content: <new text>, raw: <new markup> } : node
\*   throws   node => { if (node.tag === "p") throw ...; return node }
\*   wrap     node => node.tag === "p" ? { ...node, raw: `<x-a.b>${node.raw}</x-a.b>` } : node
TransformFns == {"rename", "rewrite", "replace", "throws", "wrap"}

\* the node that `<x-a.b>${raw}</x-a.b>` parses to: its children are the nodes
\* that raw parses to
Wrapped(raw) ==
  [type |-> "element", tagName |-> <<"x-a", ".", "b">>, value |-> <<>>, src |-> "new",
   lazy |-> FALSE, kids |-> raw]

Throws(fn, preparedNode) == fn = "throws" /\ preparedNode.tag = <<"p">>

\* the values transformFn may return for a prepared node when the next text
\* node is the n-th
TransformFn(fn, preparedNode, n) ==
  IF preparedNode.tag # <<"p">> THEN {preparedNode}
  ELSE CASE fn = "rename" -> {[preparedNode EXCEPT !.tag = <<"x-a", ".", "b">>]}
         [] fn = "rewrite" -> {[preparedNode EXCEPT !.content = <<NewValues[n]>>]}
         [] fn = "replace" -> {[tag |-> <<"x-a", ".", "b">>, content |-> <<NewValues[n]>>, raw |-> raw] :
                                 raw \in NewRaws \ {preparedNode.raw}}
         [] fn = "wrap" -> {[preparedNode EXCEPT !.raw = <<Wrapped(preparedNode.raw)>>]}
         [] OTHER -> {preparedNode}

\* the nodes applyTransform may return
applyTransform(node, fn, n) ==
  { applyChanges(node, transformedNode) : transformedNode \in TransformFn(fn, prepareNode(node), n) }

\* ---- the population calls --------------------------------------------------------
\* A task is one call of populate: for a file matched by the glob pattern
\* (populateFromFile) or for a buffer passed with an explicit format tag.
FileTask(filename) == [kind |-> "file", name |-> filename]
BufferTask(fileType) == [kind |-> "buffer", name |-> fileType]
NoTask == [kind |-> "none", name |-> <<>>]

\* one call: populateFromGlob whose pattern matches one file, or populate
SingleCalls ==
  { {FileTask(<<"a", ".", "html">>)}, {FileTask(<<"c", ".", "txt">>)},
    {BufferTask(<<"md">>)}, {BufferTask(<<"txt">>)} }

\* populateFromGlob whose pattern matches several files
GlobCalls ==
  { {FileTask(<<"a", ".", "html">>), FileTask(<<"b", ".", "md">>)} }

Options ==
  [mergeStrategy : {"undefined", "merge", "split", "both"},
   transformFn : {"undefined"} \cup TransformFns]

\* the options tried on several files
GlobOptions == [mergeStrategy : {"undefined"}, transformFn : {"undefined", "throws"}]

\* populateFromFile: filename.slice(filename.lastIndexOf(".") + 1)
FileType(t) ==
  IF t.kind = "file" THEN SliceFrom(t.name, LastIndexOf(t.name, ".") + 1) ELSE t.name

\* options?.basePath ?? "", where populateFromFile passes `${filename}/`
BasePath(t) == IF t.kind = "file" THEN t.name \o <<"/">> ELSE <<>>

VARIABLES
  tasks,     \* the populate calls of this run
  options,   \* the options passed to every call
  pc,        \* where each call's promise stands
  records,   \* the private record list of each call
  cur,       \* the call that is running its synchronous tree walk, or NoTask
  stack,     \* the visitChildren frames of that walk, the root's forEach first
  db,        \* the batches handed to insertBatch, in call order
  visited,   \* history: the number of nodes visited so far
  seen,      \* history: the text nodes visited so far, in visiting order
  failed,    \* history: the calls in which a step has thrown or rejected
  replaced   \* history: the changed raws the transform function has returned

vars == <<tasks, options, pc, records, cur, stack, db, visited, seen, failed, replaced>>

\* options?.mergeStrategy ?? "merge"
MergeStrategy == IF options.mergeStrategy = "undefined" THEN "merge" ELSE options.mergeStrategy

Top == stack[Len(stack)]

RootFrame(t) ==
  [root |-> TRUE, tagName |-> NoTag, path |-> BasePath(t), i |-> 0,
   src |-> "doc", lazy |-> TRUE, kids |-> <<>>, afterText |-> FALSE, sibs |-> {},
   origTag |-> NoTag, change |-> "none", original |-> <<>>]

\* the frame of transformedNode.children.forEach; history kept in it: original,
\* the markup of the node before the transform function was applied, origTag,
\* its tag name, and change, what the transform function changed
ElementFrame(node, path, original, change) ==
  [root |-> FALSE, tagName |-> node.tagName, path |-> path, i |-> 0,
   src |-> node.src, lazy |-> node.lazy, kids |-> node.kids, afterText |-> FALSE, sibs |-> {},
   origTag |-> original.tagName, change |-> change, original |-> toHtml(original)]

\* the path argument of visitChildren for child i of the frame's node
ChildPath(fr) ==
  IF fr.root
  THEN fr.path \o <<"root", "[", ToString(fr.i), "]">>
  ELSE fr.path \o <<".">> \o fr.tagName \o <<"[", ToString(fr.i), "]">>

\* The nodes that child i of the frame's node may be.  The parser puts text in
\* elements only and never two text nodes side by side, the doctype is a child of
\* the root, and rehype-preset-minify has removed the comments.
NextChildren(fr) ==
  IF ~fr.lazy
  THEN IF fr.i < Len(fr.kids) THEN {fr.kids[fr.i + 1]} ELSE {}
  ELSE IF visited >= MaxNodes THEN {}
  ELSE { ElementNode(tag, fr.src) : tag \in Tags }
         \cup (IF fr.root THEN {OtherNode(fr.src)}
               ELSE IF fr.afterText THEN {}
               ELSE {TextNode(<<TextValues[Len(seen) + 1]>>, fr.src)})

\* forEach has passed the last child
NoMoreChildren(fr) == IF fr.lazy THEN TRUE ELSE fr.i = Len(fr.kids)

\* forEach goes on to the next child; afterText: the child walked was text
Advance(isText) == [stack EXCEPT ![Len(stack)].i = @ + 1, ![Len(stack)].afterText = isText]

\* history kept in a frame: sibs, the tag names of the child elements entered
\* since the last text node was visited
Entered(frames, tag) == [frames EXCEPT ![Len(frames)].sibs = @ \cup {tag}]
TextSeen(frames) == [k \in 1..Len(frames) |-> [frames[k] EXCEPT !.sibs = {}]]

Init ==
  /\ \/ tasks \in SingleCalls /\ options \in Options
     \/ tasks \in GlobCalls /\ options \in GlobOptions
  /\ pc = [t \in tasks |-> IF t.kind = "file" THEN "reading" ELSE "called"]
  /\ records = [t \in tasks |-> <<>>]
  /\ cur = NoTask
  /\ stack = <<>>
  /\ db = <<>>
  /\ visited = 0
  /\ seen = <<>>
  /\ failed = {}
  /\ replaced = {}

\* insertBatch(db, records)
insertBatch(t) == db' = Append(db, [task |-> t, records |-> records[t]])

\* populate up to the start of the tree walk
populate(t) ==
  IF FileType(t) \in {<<"md">>, <<"html">>}
  THEN /\ pc' = [pc EXCEPT ![t] = "walking"]
       /\ cur' = t
       /\ stack' = <<RootFrame(t)>>
       /\ UNCHANGED <<tasks, options, records, db, visited, seen, failed, replaced>>
  ELSE \* default: return fileType
       /\ pc' = [pc EXCEPT ![t] = "resolved"]
       /\ UNCHANGED <<tasks, options, records, cur, stack, db, visited, seen, failed, replaced>>

\* readFile rejects
ReadFileRejects(t) ==
  /\ cur = NoTask
  /\ pc[t] = "reading"
  /\ pc' = [pc EXCEPT ![t] = "rejected"]
  /\ failed' = failed \cup {t}
  /\ UNCHANGED <<tasks, options, records, cur, stack, db, visited, seen, replaced>>

\* populateFromFile resumes after readFile and calls populate
PopulateFromFile(t) ==
  /\ cur = NoTask
  /\ pc[t] = "reading"
  /\ populate(t)

\* populate called with a buffer
Populate(t) ==
  /\ cur = NoTask
  /\ pc[t] = "called"
  /\ populate(t)

\* visitChildren on a text node
VisitText(t) ==
  /\ cur = t
  /\ \E node \in NextChildren(Top) :
       /\ node.type = "text"
       /\ records' = [records EXCEPT ![t] =
                        addRecords(node.value, Top.tagName, ChildPath(Top), @, MergeStrategy)]
       /\ seen' = Append(seen, [task |-> t, value |-> node.value, tagName |-> Top.tagName,
                                parent |-> Top.path, container |-> stack[Len(stack) - 1].path,
                                src |-> node.src, sibs |-> stack[Len(stack) - 1].sibs,
                                path |-> ChildPath(Top), origTag |-> Top.origTag,
                                change |-> Top.change])
  /\ stack' = TextSeen(Advance(TRUE))
  /\ visited' = visited + 1
  /\ UNCHANGED <<tasks, options, pc, cur, db, failed, replaced>>

\* visitChildren on a node that is neither text nor has a tagName
VisitOther(t) ==
  /\ cur = t
  /\ \E node \in NextChildren(Top) : node.type \notin {"text", "element"}
  /\ visited' = visited + 1
  /\ stack' = Advance(FALSE)
  /\ UNCHANGED <<tasks, options, pc, records, cur, db, seen, failed, replaced>>

\* typeof options?.transformFn === "function" ? applyTransform(node, options.transformFn) : node
TransformedNodes(node) ==
  IF options.transformFn # "undefined"
  THEN applyTransform(node, options.transformFn, Len(seen) + 1)
  ELSE {node}

\* what transformFn(preparedNode) may have returned when applyTransform gave
\* transformedNode
ResultsFor(node, transformedNode) ==
  IF options.transformFn = "undefined" THEN {prepareNode(node)}
  ELSE { r \in TransformFn(options.transformFn, prepareNode(node), Len(seen) + 1) :
           applyChanges(node, r) = transformedNode }

\* history: which fields of the prepared node the transform function changed
ChangeOf(node, result) ==
  LET preparedNode == prepareNode(node)
  IN IF result.raw # preparedNode.raw THEN "raw"
     ELSE IF result.tag # preparedNode.tag /\ result.content # preparedNode.content THEN "tag and content"
     ELSE IF result.tag # preparedNode.tag THEN "tag"
     ELSE IF result.content # preparedNode.content THEN "content"
     ELSE "none"

\* history: the changed raw of a result noted down: the number of top-level
\* nodes it parses to, the type of the first, and whether the walk went on
Noted(t, node, result, wentOn) ==
  IF ChangeOf(node, result) # "raw" THEN replaced
  ELSE replaced \cup {[task |-> t, nodes |-> Len(fromHtml(result.raw).children),
                        first |-> applyChanges(node, result).type, wentOn |-> wentOn]}

\* visitChildren on an element: transform it and enter its children
VisitElement(t) ==
  /\ cur = t
  /\ \E node \in NextChildren(Top) :
       /\ node.type = "element"
       /\ Len(stack) < MaxStack
       /\ ~Throws(options.transformFn, prepareNode(node))
       /\ \E transformedNode \in TransformedNodes(node) :
            /\ transformedNode.type = "element"
            /\ \E result \in ResultsFor(node, transformedNode) :
                 /\ stack' = Append(Entered(Advance(FALSE), transformedNode.tagName),
                                     ElementFrame(transformedNode, ChildPath(Top), node,
                                                  ChangeOf(node, result)))
                 /\ replaced' = Noted(t, node, result, TRUE)
  /\ visited' = visited + 1
  /\ UNCHANGED <<tasks, options, pc, records, cur, db, seen, failed>>

\* what follows an exception thrown inside the tree walk
WalkThrows(t) ==
  /\ failed' = failed \cup {t}
  /\ cur' = NoTask
  /\ stack' = <<>>
  /\ IF FileType(t) = <<"html">>
     THEN \* the promise of process() is dropped; populate goes on
          /\ insertBatch(t)
          /\ pc' = [pc EXCEPT ![t] = "inserting"]
     ELSE \* await run() throws
          /\ pc' = [pc EXCEPT ![t] = "rejected"]
          /\ UNCHANGED db
  /\ UNCHANGED <<tasks, options, records, visited, seen>>

\* visitChildren on an element: transformFn throws, or the node it leads to has
\* no children array (transformedNode.children.forEach is a TypeError)
VisitElementThrows(t) ==
  /\ cur = t
  /\ \E node \in NextChildren(Top) :
       /\ node.type = "element"
       /\ Len(stack) < MaxStack
       /\ \/ /\ Throws(options.transformFn, prepareNode(node))
             /\ UNCHANGED replaced
          \/ /\ ~Throws(options.transformFn, prepareNode(node))
             /\ \E transformedNode \in TransformedNodes(node) :
                  /\ transformedNode.type # "element"
                  /\ \E result \in ResultsFor(node, transformedNode) :
                       replaced' = Noted(t, node, result, FALSE)
  /\ WalkThrows(t)

\* visitChildren on an element with the call stack used up: the call throws a
\* RangeError (Maximum call stack size exceeded)
StackOverflow(t) ==
  /\ cur = t
  /\ \E node \in NextChildren(Top) : node.type = "element"
  /\ Len(stack) >= MaxStack
  /\ UNCHANGED replaced
  /\ WalkThrows(t)

\* forEach of an element's children is over: visitChildren returns
ForEachDone(t) ==
  /\ cur = t
  /\ Len(stack) > 1
  /\ NoMoreChildren(Top)
  /\ stack' = SubSeq(stack, 1, Len(stack) - 1)
  /\ UNCHANGED <<tasks, options, pc, records, cur, db, visited, seen, failed, replaced>>

\* forEach of the root's children is over: the rehypeLyra transformer returns
TreeDone(t) ==
  /\ cur = t
  /\ Len(stack) = 1
  /\ NoMoreChildren(Top)
  /\ cur' = NoTask
  /\ stack' = <<>>
  /\ IF FileType(t) = <<"html">>
     THEN /\ insertBatch(t)
          /\ pc' = [pc EXCEPT ![t] = "inserting"]
     ELSE /\ pc' = [pc EXCEPT ![t] = "awaitRun"]
          /\ UNCHANGED db
  /\ UNCHANGED <<tasks, options, records, visited, seen, failed, replaced>>

\* md: populate resumes after await run(tree)
RunResolved(t) ==
  /\ cur = NoTask
  /\ pc[t] = "awaitRun"
  /\ insertBatch(t)
  /\ pc' = [pc EXCEPT ![t] = "inserting"]
  /\ UNCHANGED <<tasks, options, records, cur, stack, visited, seen, failed, replaced>>

\* the promise of insertBatch resolves, and with it the promise of populate
InsertBatchDone(t) ==
  /\ cur = NoTask
  /\ pc[t] = "inserting"
  /\ pc' = [pc EXCEPT ![t] = "resolved"]
  /\ UNCHANGED <<tasks, options, records, cur, stack, db, visited, seen, failed, replaced>>

Next ==
  \E t \in tasks :
    \/ ReadFileRejects(t)
    \/ PopulateFromFile(t)
    \/ Populate(t)
    \/ VisitText(t)
    \/ VisitOther(t)
    \/ VisitElement(t)
    \/ VisitElementThrows(t)
    \/ StackOverflow(t)
    \/ ForEachDone(t)
    \/ TreeDone(t)
    \/ RunResolved(t)
    \/ InsertBatchDone(t)

Spec == Init /\ [][Next]_vars

\* ---- what the history says about the records ------------------------------------
Range(f) == { f[k] : k \in DOMAIN f }

\* the text nodes of one call, in visiting order
TextsOf(t) ==
  LET OfTask(e) == e.task = t IN SelectSeq(seen, OfTask)

\* the text values a content string is made of
ValuesIn(content) ==
  LET IsValue(tok) == tok # " " IN Range(SelectSeq(content, IsValue))

\* the text node with a given value
TextWith(v) == CHOOSE e \in Range(seen) : e.value = <<v>>

\* the text nodes that went into a record
TextsIn(record) == { TextWith(v) : v \in ValuesIn(record.content) }

\* two text nodes lie in the same slot of the tree: their parent elements have
\* the same tag and are children of the same container (or are one element)
SameSlot(a, b) == a.tagName = b.tagName /\ a.container = b.container

\* the text nodes cut into runs: a text node continues the run of the text node
\* visited just before it when the two lie in the same slot
RECURSIVE Runs(_)
Runs(ts) ==
  IF Len(ts) = 0 THEN <<>>
  ELSE LET before == Runs(SubSeq(ts, 1, Len(ts) - 1))
           last == ts[Len(ts)]
       IN IF Len(ts) > 1 /\ SameSlot(ts[Len(ts) - 1], last)
          THEN [before EXCEPT ![Len(before)] = Append(@, last)]
          ELSE Append(before, <<last>>)

\* the values of a run joined by single spaces
RECURSIVE Joined(_)
Joined(run) ==
  IF Len(run) = 1 THEN run[1].value
  ELSE Joined(SubSeq(run, 1, Len(run) - 1)) \o <<" ">> \o run[Len(run)].value

TypeAndContent(rs) == [k \in 1..Len(rs) |-> [type |-> rs[k].type, content |-> rs[k].content]]

Standalone(e) == [type |-> e.tagName, content |-> e.value]
Merged(run) == [type |-> run[1].tagName, content |-> Joined(run)]

RECURSIVE StandaloneAndMerged(_)
StandaloneAndMerged(runs) ==
  IF Len(runs) = 0 THEN <<>>
  ELSE StandaloneAndMerged(SubSeq(runs, 1, Len(runs) - 1))
         \o [k \in 1..Len(runs[Len(runs)]) |-> Standalone(runs[Len(runs)][k])]
         \o <<Merged(runs[Len(runs)])>>

\* ---- the claims --------------------------------------------------------------------

\* C1: under the merge strategy, which is also the default, every run of text
\* nodes that follow one another in the same slot (direct children of same-tag
\* sibling elements under one container) is one record: its type is the tag and
\* its content is the texts of the run in visiting order, joined by single spaces.
C1_MergeJoinsRun ==
  MergeStrategy = "merge" =>
    \A t \in tasks :
      LET runs == Runs(TextsOf(t))
      IN TypeAndContent(records[t]) = [k \in 1..Len(runs) |-> Merged(runs[k])]

\* C1 witness: with no mergeStrategy given, the texts A and B of two sibling
\* elements of one tag have become the single record "A B"
C1_Witness ==
  /\ options.mergeStrategy = "undefined"
  /\ Len(seen) = 2
  /\ SameSlot(seen[1], seen[2]) /\ seen[1].parent # seen[2].parent
  /\ \E t \in tasks : /\ Len(records[t]) = 1
                      /\ records[t][1].content = <<"A", " ", "B">>

\* C2: under the both strategy the records are, run by run, one standalone record
\* for each text node of the run followed by the one record of the merged run.
C2_BothKeepsStandaloneAndMerged ==
  MergeStrategy = "both" =>
    \A t \in tasks :
      TypeAndContent(records[t]) = StandaloneAndMerged(Runs(TextsOf(t)))

\* C2 witness: two sibling elements of one tag with the texts A and B have given
\* the three records A, B and "A B"
C2_Witness ==
  /\ MergeStrategy = "both"
  /\ Len(seen) = 2
  /\ SameSlot(seen[1], seen[2]) /\ seen[1].parent # seen[2].parent
  /\ \E t \in tasks :
       /\ Len(records[t]) = 3
       /\ { records[t][k].content : k \in 1..3 } = { <<"A">>, <<"B">>, <<"A", " ", "B">> }

\* C3: under the split strategy there is one record for each text node visited,
\* and the content of the k-th record is the k-th text alone.
C3_SplitOneRecordPerText ==
  MergeStrategy = "split" =>
    \A t \in tasks :
      /\ Len(records[t]) = Len(TextsOf(t))
      /\ \A k \in 1..Len(records[t]) : records[t][k].content = TextsOf(t)[k].value

\* C3 witness: two text nodes in the same slot, which merge would join, are two
\* records under split
C3_Witness ==
  /\ MergeStrategy = "split"
  /\ Len(seen) = 2
  /\ SameSlot(seen[1], seen[2])
  /\ \E t \in tasks : Len(records[t]) = 2

\* C4: two text nodes whose parent elements have the same tag and are children
\* of one container, with a sibling element of another tag between the two parent
\* elements, are never in one record.
C4_NeverMergedAcrossOtherTag ==
  \A i \in 1..Len(seen) : \A j \in (i+1)..Len(seen) :
    LET a == seen[i]
        b == seen[j]
    IN ( /\ a.task = b.task
         /\ SameSlot(a, b)
         /\ a.parent # b.parent
         /\ \E k \in (i+1)..j : /\ seen[k].container = a.container
                                /\ \E tag \in seen[k].sibs : tag # a.tagName )
       => \A r \in Range(records[a.task]) : ~({a, b} \subseteq TextsIn(r))

\* C5: two text nodes whose parent elements have the same tag but are children
\* of different containers are never in one record, under every strategy.
C5_NeverMergedAcrossContainers ==
  \A t \in tasks : \A r \in Range(records[t]) :
    \A a \in TextsIn(r) : \A b \in TextsIn(r) :
      a.tagName = b.tagName => a.container = b.container

\* C5 witness: under merge, two text nodes whose parent elements have the same
\* tag but lie in different containers follow one another and are two records
C5_Witness ==
  /\ MergeStrategy = "merge"
  /\ Len(seen) = 2
  /\ seen[1].tagName = seen[2].tagName /\ seen[1].container # seen[2].container
  /\ \E t \in tasks : /\ Len(records[t]) = 2
                      /\ records[t][1].content = <<"A">>
                      /\ records[t][2].content = <<"B">>

\* the promise the caller holds: the one of populate, or the one of
\* populateFromGlob, which awaits Promise.all over the calls for the files
CallPromise ==
  IF \E t \in tasks : pc[t] = "rejected" THEN "rejected"
  ELSE IF \A t \in tasks : pc[t] = "resolved" THEN "fulfilled"
  ELSE "pending"

\* C6: the id of every record is the path of the parent element of the text node
\* the record was made for (the first one, when texts were merged into it).
C6_IdIsParentPath ==
  \A t \in tasks : \A r \in Range(records[t]) :
    r.id = TextWith(r.content[1]).parent

\* C7: a call whose file type is neither html nor md does not complete
\* successfully: its promise is never fulfilled.
C7_UnsupportedTypeRejects ==
  (\E t \in tasks : FileType(t) \notin {<<"html">>, <<"md">>}) => CallPromise # "fulfilled"

\* C8: the record list a call has built up to the step that failed is never
\* passed to insertBatch.
C8_PartialListNeverInserted ==
  \A k \in DOMAIN db : ~(db[k].task \in failed /\ Len(db[k].records) > 0)

\* C9: populateFromGlob over several files has rejected once every file's task is
\* settled and the reading or the walk of one of the files has failed.
C9_GlobRejectsOnFailure ==
  ( /\ Cardinality(tasks) > 1
    /\ failed # {}
    /\ \A t \in tasks : pc[t] \in {"resolved", "rejected"} )
  => CallPromise = "rejected"

\* C10: a record made for a text node of markup that the transform function
\* returned as a changed raw has the tag of the text's parent in that markup as
\* type, the text as the start of its content, and as id the path of that
\* parent, which is the replaced element's path extended by the tags and
\* indexes inside the replacement.
C10_ReplacementRecords ==
  \A t \in tasks : \A r \in Range(records[t]) :
    LET e == TextWith(r.content[1])
    IN e.src = "new" => /\ r.type = e.tagName
                        /\ r.id = e.parent

\* the id addRecords computes for a text child of the element as it was before
\* the transform function was applied
UntransformedId(e) ==
  LET index == SubSeq(e.path, LastIndexOf(e.path, "[") + 1, Len(e.path))
      path == e.parent \o <<".">> \o e.origTag \o index
  IN Substring(path, LastIndexOf(path, "."))

\* C11: when the transform function returns the same raw, a text node of an
\* element of which only the tag was changed is in a record with the new tag as
\* type and the text of the document as content, a text node of an element of
\* which only the content was changed is in a record with the new text as
\* content and the tag of the document as type, and in both cases a record made
\* for that text node has the id the untransformed element would have produced.
C11_TagOrContentOnlyChange ==
  \A k \in 1..Len(seen) :
    LET e == seen[k]
    IN e.change \in {"tag", "content"} =>
         \A r \in Range(records[e.task]) :
           e \in TextsIn(r) =>
             /\ e.change = "tag" => /\ r.type = e.tagName /\ e.tagName # e.origTag
                                    /\ e.value[1] \in Range(TextValues)
             /\ e.change = "content" => /\ r.type = e.origTag
                                        /\ e.value[1] \in Range(NewValues)
             /\ r.content[1] = e.value[1] => r.id = UntransformedId(e)

\* the places in the visiting order of the text nodes that went into a record
PlacesIn(record) == { k \in 1..Len(seen) : seen[k].value[1] \in ValuesIn(record.content) }

\* new is old with text added at the end of its content, or old itself
Grown(old, new) ==
  /\ new.type = old.type /\ new.id = old.id
  /\ Len(new.content) >= Len(old.content)
  /\ SubSeq(new.content, 1, Len(old.content)) = old.content

\* a step leaves the records of the list in their relative order: all but the
\* last keep their places, the last one keeps its place or moves back
KeepsOrder ==
  \A t \in tasks :
    LET old == records[t]
        new == records'[t]
        n == Len(old)
    IN n > 0 => /\ Len(new) >= n
                /\ SubSeq(new, 1, n - 1) = SubSeq(old, 1, n - 1)
                /\ \E j \in n..Len(new) : Grown(old[n], new[j])

\* no record with an earlier text node in it comes after a record with a later
\* text node in it
OrderedByOrigin ==
  \A t \in tasks : \A i \in 1..Len(records[t]) : \A j \in 1..Len(records[t]) :
    \A a \in PlacesIn(records[t][i]) : \A b \in PlacesIn(records[t][j]) :
      a < b => i <= j

\* the records are in the visiting order of the last text node in each
OrderedByLastText ==
  \A t \in tasks : \A i \in 1..Len(records[t]) : \A j \in i..Len(records[t]) :
    \A a \in PlacesIn(records[t][i]) : \E b \in PlacesIn(records[t][j]) : a <= b

\* C12 as stated: under every strategy no step changes the relative order of the
\* records already in the list, and a record that originates from an earlier
\* text node never comes after a record that originates from a later one.
C12_VisitationOrder == [][KeepsOrder /\ OrderedByOrigin']_vars

\* C12 amended: under every strategy no step changes the relative order of the
\* records already in the list, and the records are in the visiting order of the
\* last text node that went into each of them.
C12_OrderOfLastText == [][KeepsOrder /\ OrderedByLastText']_vars

\* C12 witness: under both, the standalone record of the later text B stands
\* before the merged record "A B", which was made for A and has A's id
C12_Witness ==
  /\ MergeStrategy = "both"
  /\ Len(seen) = 2
  /\ \E t \in tasks :
       /\ Len(records[t]) = 3
       /\ records[t][2].content = <<"B">>
       /\ records[t][3].content = <<"A", " ", "B">>
       /\ records[t][3].id = records[t][1].id
       /\ records[t][3].id # records[t][2].id

\* String.prototype.startsWith
StartsWith(str, prefix) ==
  Len(str) >= Len(prefix) /\ SubSeq(str, 1, Len(prefix)) = prefix

\* the batches handed to insertBatch for one call
BatchesOf(t) == { k \in DOMAIN db : db[k].task = t }

\* C13: the calls of populateFromGlob share no state: the record list of a file
\* holds records of that file's text nodes only, insertBatch is called at most
\* once for a file and exactly once for a file of a supported type whose call
\* has resolved, a batch is handed over only after the file's tree walk has
\* completed and is the file's complete record list, and every record of a
\* batch has an id that starts with the file's own base path.
C13_FilesShareNothing ==
  /\ \A t \in tasks : \A r \in Range(records[t]) : \A e \in TextsIn(r) : e.task = t
  /\ \A t \in tasks :
       /\ Cardinality(BatchesOf(t)) <= 1
       /\ (pc[t] = "resolved" /\ FileType(t) \in {<<"html">>, <<"md">>})
            => Cardinality(BatchesOf(t)) = 1
  /\ \A k \in DOMAIN db :
       /\ db[k].task \notin failed
       /\ cur # db[k].task
       /\ db[k].records = records[db[k].task]
       /\ \A r \in Range(db[k].records) : StartsWith(r.id, BasePath(db[k].task))

\* the walk is back at markup it is already inside the replacement of: the
\* element entered last is the markup of the element that its parent in the
\* walk, a replacement built by the transform function, was put in for
Revisited(frames) ==
  \E j \in 2..Len(frames) :
    /\ frames[j - 1].change = "raw"
    /\ ~frames[j - 1].lazy
    /\ frames[j].original = frames[j - 1].original

\* C14: for every input tree and every transform function the walk terminates
\* and visits no node more than once: the walk never comes back to markup that
\* it has visited and is still inside of (from where a transform function, which
\* answers the same markup in the same way, would lead it back there without end).
C14_WalkTerminatesVisitsOnce == ~Revisited(stack)

\* C15: when the transform function has returned a changed raw that parses to
\* no top-level node or to more than one, the walk has taken the first top-level
\* node as the replacement and has gone on without error.
C15_FirstNodeTaken ==
  \A e \in replaced : e.nodes # 1 => e.wentOn

\* addRecords called for the text nodes ts, one after the other, under a strategy
RECURSIVE AddAll(_, _)
AddAll(ts, strategy) ==
  IF Len(ts) = 0 THEN <<>>
  ELSE LET e == ts[Len(ts)]
       IN addRecords(e.value, e.tagName, e.path, AddAll(SubSeq(ts, 1, Len(ts) - 1), strategy), strategy)

\* the number of texts in a content string
TextCount(content) ==
  LET IsValue(tok) == tok # " " IN Len(SelectSeq(content, IsValue))

\* the split records and the merge records put together: for each merge record,
\* the split records of the texts in it, in order, and then the merge record
RECURSIVE Combined(_, _)
Combined(split, merge) ==
  IF Len(merge) = 0 THEN split
  ELSE LET m == merge[Len(merge)]
           n == Min(TextCount(m.content), Len(split))
       IN Combined(SubSeq(split, 1, Len(split) - n), SubSeq(merge, 1, Len(merge) - 1))
            \o SubSeq(split, Len(split) - n + 1, Len(split)) \o <<m>>

\* C16: under both, after every text node the record list is the combination of
\* what split and merge give for the same text nodes: its last record is the
\* last record of merge (same type, content and id), it has as many records as
\* split and merge together, and it is the split records in order, each run of
\* them followed by the merge record of the run.
C16_BothIsSplitPlusMerge ==
  MergeStrategy = "both" =>
    \A t \in tasks :
      LET split == AddAll(TextsOf(t), "split")
          merge == AddAll(TextsOf(t), "merge")
          both == records[t]
      IN /\ Len(both) = Len(split) + Len(merge)
         /\ Len(merge) > 0 => both[Len(both)] = merge[Len(merge)]
         /\ both = Combined(split, merge)

\* C16 witness: under both, two or more text nodes have been added of which
\* some were merged, so that merge gives fewer records than split
C16_Witness ==
  /\ MergeStrategy = "both"
  /\ \E t \in tasks :
       /\ Len(TextsOf(t)) >= 2
       /\ Len(AddAll(TextsOf(t), "merge")) < Len(AddAll(TextsOf(t), "split"))
       /\ Len(records[t]) = Len(AddAll(TextsOf(t), "split")) + Len(AddAll(TextsOf(t), "merge"))

====
